---- MODULE Spec2Model ----
(***************************************************************************)
(* Model of the Monarch Money MCP server (server.py, server_simple.py)     *)
(* and of its interactive setup utility (login_setup.py).                  *)
(*                                                                         *)
(* The wrapped client library (monarchmoney.MonarchMoney) and the remote   *)
(* service are the environment: a client object is a record holding the    *)
(* session token it carries, a session file is a path with a content, and  *)
(* the remote service answers a login with success, an MFA requirement or  *)
(* a failure.                                                              *)
(***************************************************************************)
EXTENDS Integers, Sequences, FiniteSets, TLC

VARIABLES
    program,        \* the program that runs: "server" (server.py), "simple" (server_simple.py), "setup" (login_setup.py)
    envSessionFile, \* MONARCH_SESSION_FILE: "unset" or "custom"
    envEmail,       \* MONARCH_EMAIL is set and non-empty
    envPassword,    \* MONARCH_PASSWORD is set and non-empty
    cwd,            \* working directory of the process
    remoteAcct,     \* what the remote service answers to a login: "ok", "mfa", "bad"
    fs,             \* the session files: path -> content
    clients,        \* every MonarchMoney object constructed so far (index = identity)
    handle,         \* _monarch_client: 0 is None, else an index into clients
    pc,             \* per invocation: position in the handler
    idx,            \* per invocation: position of the candidate loop
    client,         \* per invocation: the client the accessor returned (0: none)
    exc,            \* per invocation: the exception in flight ("none": none)
    stage,          \* per invocation: where the exception in flight was raised
    resp,           \* per invocation: the remote response being reshaped
    out,            \* per invocation: the text the handler returned
    searched,       \* per invocation: os.path.exists / load_session calls made
    logins,         \* per invocation: login calls made
    ranSearch,      \* per invocation: the accessor ran the candidate loop
    calls,          \* handler invocations started so far
    tool,           \* per invocation: the tool the runtime invoked
    args,           \* per invocation: the arguments of the tool
    req,            \* per invocation: the request made on the client
    overlap,        \* some invocation started while another was running
    spc,            \* login_setup.py: position in main
    mm,             \* login_setup.py: the client main holds in mm (0: none)
    authenticated,  \* login_setup.py: the flag of main
    sidx,           \* login_setup.py: position of the loop being run
    success_count,  \* login_setup.py: save_session_everywhere's counter
    reports,        \* login_setup.py: what save_session_everywhere printed, per location
    saved,          \* login_setup.py: what save_session_everywhere returned ("none": not yet)
    exit,           \* login_setup.py: how main ended ("none": running)
    slog            \* login_setup.py: the calls made on client objects, in order

vars == <<program, envSessionFile, envEmail, envPassword, cwd, remoteAcct,
          fs, clients, handle, pc, idx, client, exc, stage, resp, out,
          searched, logins, ranSearch, calls, tool, args, req, overlap,
          spc, mm, authenticated, sidx, success_count, reports, saved, exit, slog>>

serverVars == <<handle, pc, idx, client, exc, stage, resp, out, searched, logins,
                ranSearch, calls, overlap>>

setupVars == <<spc, mm, authenticated, sidx, success_count, reports, saved, exit, slog>>

toolVars == <<tool, args, req>>

envVars == <<program, envSessionFile, envEmail, envPassword, cwd, remoteAcct>>

(***************************************************************************)
(* Bounds of the model.                                                    *)
(***************************************************************************)
NumCallers == 2
MaxCalls == 2

Callers == 1..NumCallers

(***************************************************************************)
(* Paths and file contents.                                                *)
(***************************************************************************)
JsonName == "monarch_session.json"
PickleName == ".mm/mm_session.pickle"

RepoJson == <<"repo", JsonName>>
RepoPickle == <<"repo", PickleName>>
HomePickle == <<"home", PickleName>>
CustomPath == <<"custom", "session">>

Dirs == {"repo", "other"}
Paths == {RepoJson, RepoPickle, HomePickle, CustomPath,
          <<"other", JsonName>>, <<"other", PickleName>>}

\* a relative path names a file of the working directory
Resolve(d, name) == <<d, name>>

Tokens == {"t0", "tl", "tm"}
InitialContents == {"missing", "corrupt", "t0"}
Contents == {"missing", "corrupt"} \cup Tokens

\* os.getenv("MONARCH_SESSION_FILE", "monarch_session.json")
SessionFileSetting(env, d) ==
    IF env = "custom" THEN CustomPath ELSE Resolve(d, JsonName)

\* session_locations of get_monarch_client / get_monarch_client_sync
session_locations(env, d) ==
    << SessionFileSetting(env, d), RepoJson, RepoPickle, HomePickle >>

Range(s) == { s[i] : i \in DOMAIN s }

\* os.path.exists
Exists(f, p) == f[p] # "missing"

\* MonarchMoney.load_session succeeds on a file that deserializes
LoadSucceeds(f, p) == f[p] \in Tokens

(***************************************************************************)
(* Client objects.                                                         *)
(***************************************************************************)
\* MonarchMoney(): no token, nothing loaded
BareClient == [token |-> "none", src |-> <<"none", "none">>, via |-> "new"]

Authenticated(k) == k # 0 /\ clients[k].token # "none"

\* a client after load_session(p) succeeded on it
LoadedClient(f, p) == [token |-> f[p], src |-> p, via |-> "load"]

\* a client after login(email, password) succeeded on it
LoggedInClient(k) == [token |-> "tl", src |-> k.src, via |-> "login"]

(***************************************************************************)
(* Remote responses of get_accounts: the "accounts" entry is a list of     *)
(* records, null or absent; in a record the nested type and institution    *)
(* are a mapping, null or absent.                                          *)
(***************************************************************************)
Nested == {"map", "null", "absent"}
AccountRecords == [type : Nested, institution : Nested]
AccountsResponses ==
    {[kind |-> "null", items |-> << >>], [kind |-> "absent", items |-> << >>],
     [kind |-> "list", items |-> << >>]}
    \cup {[kind |-> "list", items |-> <<a>>] : a \in AccountRecords}

\* account_type.get("name") if account_type else None
UnwrapName(n) == IF n = "map" THEN "name" ELSE "null"

\* the account_info built for one record
account_info(a) == [type |-> UnwrapName(a.type), institution |-> UnwrapName(a.institution)]

\* accounts.get("accounts", []) cannot be iterated when the entry is null
ReshapeRaises(r) == r.kind = "null"

\* the account_list that is serialized
account_list(r) ==
    IF r.kind = "absent" THEN << >>
    ELSE [i \in DOMAIN r.items |-> account_info(r.items[i])]

NoOutput == [kind |-> "none", prefix |-> "", exc |-> "none", body |-> << >>]
NoResponse == [kind |-> "absent", items |-> << >>]

\* json.dumps(account_list, indent=2, default=str)
JsonOutput(list) == [kind |-> "json", prefix |-> "", exc |-> "none", body |-> list]

\* f"Error getting accounts: {str(e)}"
ErrorOutput(e) == [kind |-> "error", prefix |-> "Error getting accounts: ", exc |-> e, body |-> << >>]

(***************************************************************************)
(* The data tools and their arguments.  get_transactions takes limit,      *)
(* offset and three optional filters; the other two take none.             *)
(***************************************************************************)
Tools == {"get_accounts", "get_transactions", "get_budgets"}

\* Python's None, the default of the three filters
None == "None"

\* limit: int = 100
DefaultLimit == 100

\* offset: int = 0
DefaultOffset == 0

DefaultArgs ==
    [limit |-> DefaultLimit, offset |-> DefaultOffset,
     start_date |-> None, end_date |-> None, account_id |-> None]

\* the arguments a caller passes to get_transactions: a filter is left out
\* (None), passed as the empty string, or passed with a value
TransactionArgs ==
    [limit : {50, DefaultLimit}, offset : {DefaultOffset},
     start_date : {None, "", "2024-01-01"}, end_date : {None, "", "2024-12-31"},
     account_id : {None, "", "acc1"}]

ArgsOf(t) == IF t = "get_transactions" THEN TransactionArgs ELSE {DefaultArgs}

\* the keyword of the client call a filter argument is forwarded under
FilterKeys == {"startDate", "endDate", "accountId"}

ArgOf(k) ==
    IF k = "startDate" THEN "start_date"
    ELSE IF k = "endDate" THEN "end_date" ELSE "account_id"

\* every filter is put into the request, whatever the argument holds
AlwaysForwarded(a) == TRUE

\* "if start_date:": None and the empty string are false
Truthy(a) == a # None /\ a # ""

\* filters = {}; if start_date: filters["startDate"] = start_date; ...
filters(a) ==
    [k \in {f \in FilterKeys : Truthy(a[ArgOf(f)])} |-> a[ArgOf(k)]]

\* client.get_transactions(limit=limit, offset=offset, **filters)
TransactionKwargs(a) ==
    [k \in {"limit", "offset"} \cup DOMAIN filters(a) |->
        IF k = "limit" THEN a.limit
        ELSE IF k = "offset" THEN a.offset ELSE filters(a)[k]]

NoKwargs == [k \in {} |-> None]

NoRequest == [method |-> "none", kwargs |-> NoKwargs]

\* the call a handler makes on the client
Request(t, a) ==
    [method |-> t,
     kwargs |-> IF t = "get_transactions" THEN TransactionKwargs(a) ELSE NoKwargs]

(***************************************************************************)
(* Remote responses of get_transactions and get_budgets, and the records   *)
(* the handlers build from them.                                           *)
(***************************************************************************)
TransactionRecords == [category : Nested, account : Nested, merchant : Nested]

BudgetRecords == [category : Nested]

TransactionsResponses ==
    {[kind |-> "null", items |-> << >>], [kind |-> "absent", items |-> << >>],
     [kind |-> "list", items |-> << >>]}
    \cup {[kind |-> "list", items |-> <<t>>] : t \in TransactionRecords}

BudgetsResponses ==
    {[kind |-> "null", items |-> << >>], [kind |-> "absent", items |-> << >>],
     [kind |-> "list", items |-> << >>]}
    \cup {[kind |-> "list", items |-> <<b>>] : b \in BudgetRecords}

\* result = run_async(_refresh_accounts()) is serialized as it is
RefreshResponses == {[kind |-> "result", items |-> << >>]}

ResponsesOf(t) ==
    IF t = "get_accounts" THEN AccountsResponses
    ELSE IF t = "get_transactions" THEN TransactionsResponses
    ELSE IF t = "get_budgets" THEN BudgetsResponses ELSE RefreshResponses

\* txn.get("account", {}).get("displayName"): the default {} stands in for an
\* absent entry only; a null entry is None, which has no get
GetOfDefault(n) ==
    IF n = "map" THEN "name" ELSE IF n = "absent" THEN "null" ELSE "raise"

\* the transaction_info built for one record
transaction_info(t) ==
    [category |-> UnwrapName(t.category), account |-> GetOfDefault(t.account),
     merchant |-> UnwrapName(t.merchant)]

\* the budget_info built for one record: server.py chains the two gets,
\* server_simple.py tests the entry first
budget_info(p, b) ==
    [category |-> IF p = "server" THEN GetOfDefault(b.category)
                  ELSE UnwrapName(b.category)]

\* the record built for one item of the response of tool t in program p
info(p, t, x) ==
    IF t = "get_accounts" THEN account_info(x)
    ELSE IF t = "get_transactions" THEN transaction_info(x) ELSE budget_info(p, x)

\* building the record of some item raises AttributeError
InfoRaises(p, t, r) ==
    \E i \in DOMAIN r.items :
       \E f \in DOMAIN info(p, t, r.items[i]) : info(p, t, r.items[i])[f] = "raise"

\* the list that is serialized
info_list(p, t, r) ==
    IF t = "get_accounts" THEN account_list(r)
    ELSE IF r.kind = "absent" THEN << >>
    ELSE [i \in DOMAIN r.items |-> info(p, t, r.items[i])]

ErrorPrefix(t) ==
    IF t = "get_accounts" THEN "Error getting accounts: "
    ELSE IF t = "get_transactions" THEN "Error getting transactions: "
    ELSE IF t = "get_budgets" THEN "Error getting budgets: "
    ELSE "Error refreshing accounts: "

\* the text the except clause of tool t returns
ToolError(t, e) == [ErrorOutput(e) EXCEPT !.prefix = ErrorPrefix(t)]

(***************************************************************************)
(* The server: one handler invocation per caller, in steps.                *)
(***************************************************************************)
Idle(c) == pc[c] \in {"idle", "done"}

\* the host runtime processes one invocation at a time
Serial(c) == \A d \in Callers \ {c} : Idle(d)

\* the handle is not consulted: every call builds a client
HandleIgnored(h) == TRUE

\* if _monarch_client is None
HandleIsNone(h) == h = 0

\* a failed load ends the search
AbortOnLoadFailure(i) == i + 4

\* "Continue to next session file": a failed load moves on to the next candidate
AfterLoadFailure(i) == i + 1

\* one of the two is enough
HasEitherCredential(e, p) == e \/ p

\* if email and password
HasCredentials(e, p) == e /\ p

Raise(c, e, where) ==
    /\ exc' = [exc EXCEPT ![c] = e]
    /\ stage' = [stage EXCEPT ![c] = where]
    /\ pc' = [pc EXCEPT ![c] = "except"]

\* the accessor returns client k to the handler
Return(c, k) ==
    /\ client' = [client EXCEPT ![c] = k]
    /\ pc' = [pc EXCEPT ![c] = "remote"]

\* the locals of invocation c start afresh; the locals of an invocation that has
\* returned are gone
Locals(f, c, start, none) ==
    [d \in Callers |-> IF d = c THEN start ELSE IF pc[d] = "done" THEN none ELSE f[d]]

\* tool t is entered with arguments a
Enter(c, t, a) ==
    /\ program \in {"server", "simple"}
    /\ Idle(c)
    /\ calls < MaxCalls
    /\ calls' = calls + 1
    /\ pc' = Locals(pc, c, "get_client", "idle")
    /\ idx' = Locals(idx, c, 0, 0)
    /\ client' = Locals(client, c, 0, 0)
    /\ exc' = Locals(exc, c, "none", "none")
    /\ stage' = Locals(stage, c, "none", "none")
    /\ resp' = Locals(resp, c, NoResponse, NoResponse)
    /\ out' = Locals(out, c, NoOutput, NoOutput)
    /\ searched' = Locals(searched, c, 0, 0)
    /\ logins' = Locals(logins, c, 0, 0)
    /\ ranSearch' = Locals(ranSearch, c, FALSE, FALSE)
    /\ tool' = Locals(tool, c, t, "none")
    /\ args' = Locals(args, c, a, DefaultArgs)
    /\ req' = Locals(req, c, NoRequest, NoRequest)
    /\ overlap' = (overlap \/ ~Serial(c))
    /\ UNCHANGED <<envVars, setupVars, fs, clients, handle>>

\* the runtime enters tool t with arguments a when no other invocation runs
Start(c, t, a) == Serial(c) /\ Enter(c, t, a)

\* the runtime enters get_accounts
StartCall(c) == Start(c, "get_accounts", DefaultArgs)

\* the runtime enters one of the data tools
StartTool(c) == \E t \in Tools : \E a \in ArgsOf(t) : Start(c, t, a)

\* get_monarch_client: the test of the handle, the placeholder, the final return
GetClient(c) ==
    /\ pc[c] = "get_client"
    /\ IF HandleIsNone(handle)
       THEN /\ clients' = Append(clients, BareClient)
            /\ handle' = Len(clients) + 1
            /\ idx' = [idx EXCEPT ![c] = 1]
            /\ ranSearch' = [ranSearch EXCEPT ![c] = TRUE]
            /\ pc' = [pc EXCEPT ![c] = "loop"]
            /\ UNCHANGED client
       ELSE /\ Return(c, handle)
            /\ UNCHANGED <<clients, handle, idx, ranSearch>>
    /\ UNCHANGED <<envVars, overlap, toolVars, setupVars, fs, exc, stage, resp, out, searched,
                   logins, calls>>

\* one iteration of "for session_file in session_locations" in server.py
LoopServer(c, p) ==
    IF ~Exists(fs, p)
    THEN /\ idx' = [idx EXCEPT ![c] = idx[c] + 1]
         /\ searched' = [searched EXCEPT ![c] = searched[c] + 1]
         /\ UNCHANGED <<clients, handle, client, pc>>
    ELSE /\ searched' = [searched EXCEPT ![c] = searched[c] + 2]
         /\ IF LoadSucceeds(fs, p)
            THEN /\ clients' = Append(clients, LoadedClient(fs, p))
                 /\ handle' = Len(clients) + 1
                 /\ Return(c, Len(clients) + 1)
                 /\ UNCHANGED idx
            ELSE /\ clients' = Append(clients, BareClient)
                 /\ idx' = [idx EXCEPT ![c] = AfterLoadFailure(idx[c])]
                 /\ UNCHANGED <<handle, client, pc>>

\* one iteration of the loop in server_simple.py: the session is loaded into the handle's client
LoopSimple(c, p) ==
    IF ~Exists(fs, p)
    THEN /\ idx' = [idx EXCEPT ![c] = idx[c] + 1]
         /\ searched' = [searched EXCEPT ![c] = searched[c] + 1]
         /\ UNCHANGED <<clients, handle, client, pc>>
    ELSE /\ searched' = [searched EXCEPT ![c] = searched[c] + 2]
         /\ IF LoadSucceeds(fs, p)
            THEN /\ clients' = [clients EXCEPT ![handle] = LoadedClient(fs, p)]
                 /\ Return(c, handle)
                 /\ UNCHANGED <<idx, handle>>
            ELSE /\ idx' = [idx EXCEPT ![c] = AfterLoadFailure(idx[c])]
                 /\ UNCHANGED <<clients, handle, client, pc>>

LoopStep(c) ==
    /\ pc[c] = "loop"
    /\ LET locs == session_locations(envSessionFile, cwd) IN
       IF idx[c] > Len(locs)
       THEN /\ pc' = [pc EXCEPT ![c] = "creds"]
            /\ UNCHANGED <<clients, handle, idx, client, searched>>
       ELSE IF program = "server" THEN LoopServer(c, locs[idx[c]])
            ELSE LoopSimple(c, locs[idx[c]])
    /\ UNCHANGED <<envVars, overlap, toolVars, setupVars, fs, exc, stage, resp, out, logins,
                   ranSearch, calls>>

\* the outcome of "await _monarch_client.login(email, password)" as an exception name
LoginException(acct) ==
    IF acct = "mfa" THEN "RequireMFAException" ELSE "LoginFailedException"

\* server.py after the loop: environment credentials, login on the handle's client
CredsServer(c) ==
    IF HasCredentials(envEmail, envPassword)
    THEN /\ logins' = [logins EXCEPT ![c] = logins[c] + 1]
         /\ IF remoteAcct = "ok"
            THEN /\ clients' = [clients EXCEPT ![handle] = LoggedInClient(clients[handle])]
                 /\ Return(c, handle)
                 /\ UNCHANGED <<exc, stage>>
            ELSE /\ Raise(c, LoginException(remoteAcct), "accessor")
                 /\ UNCHANGED <<clients, client>>
    ELSE /\ Raise(c, "AuthenticationRequired", "accessor")
         /\ UNCHANGED <<clients, client, logins>>

\* server_simple.py after the loop: the credentials are only tested for presence
CredsSimple(c) ==
    IF ~envEmail \/ ~envPassword
    THEN /\ Raise(c, "AuthenticationRequired", "accessor")
         /\ UNCHANGED <<clients, client, logins>>
    ELSE /\ Return(c, handle)
         /\ UNCHANGED <<clients, exc, stage, logins>>

Creds(c) ==
    /\ pc[c] = "creds"
    /\ IF program = "server" THEN CredsServer(c) ELSE CredsSimple(c)
    /\ UNCHANGED <<envVars, overlap, toolVars, setupVars, fs, handle, idx, resp, out, searched,
                   ranSearch, calls>>

\* the remote service rejects a request that carries no session token
RemoteRejects(k) == ~Authenticated(k)

\* client.get_accounts(), client.get_transactions(...), client.get_budgets(): the
\* remote call, run to completion by run_async
Remote(c) ==
    /\ pc[c] = "remote"
    /\ req' = [req EXCEPT ![c] = Request(tool[c], args[c])]
    /\ \/ /\ Raise(c, "RemoteError", "remote")
          /\ UNCHANGED resp
       \/ /\ ~RemoteRejects(client[c])
          /\ \E r \in ResponsesOf(tool[c]) : resp' = [resp EXCEPT ![c] = r]
          /\ pc' = [pc EXCEPT ![c] = "reshape"]
          /\ UNCHANGED <<exc, stage>>
    /\ UNCHANGED <<envVars, overlap, tool, args, setupVars, fs, clients, handle, idx, client,
                   out, searched,
                   logins, ranSearch, calls>>

\* the formatting loop and json.dumps of a data tool
Reshape(c) ==
    /\ pc[c] = "reshape"
    /\ IF ReshapeRaises(resp[c])
       THEN /\ Raise(c, "TypeError", "reshape")
            /\ UNCHANGED out
       ELSE IF InfoRaises(program, tool[c], resp[c])
       THEN /\ Raise(c, "AttributeError", "reshape")
            /\ UNCHANGED out
       ELSE /\ out' = [out EXCEPT ![c] = JsonOutput(info_list(program, tool[c], resp[c]))]
            /\ pc' = [pc EXCEPT ![c] = "done"]
            /\ UNCHANGED <<exc, stage>>
    /\ UNCHANGED <<envVars, overlap, toolVars, setupVars, fs, clients, handle, idx, client,
                   resp, searched, logins,
                   ranSearch, calls>>

\* the exceptions the steps of a handler raise; all derive from Exception
ExceptionClasses == {"AuthenticationRequired", "RequireMFAException", "LoginFailedException",
                     "RemoteError", "TypeError", "AttributeError"}

\* an except clause that names RuntimeError only
CaughtRuntimeErrorOnly(e) == e = "AuthenticationRequired"

\* "except Exception as e" catches e
Caught(e) == e \in ExceptionClasses

\* the except clause of a data tool; an exception it does not catch reaches the runtime
Except(c) ==
    /\ pc[c] = "except"
    /\ IF Caught(exc[c])
       THEN /\ out' = [out EXCEPT ![c] = ToolError(tool[c], exc[c])]
            /\ pc' = [pc EXCEPT ![c] = "done"]
       ELSE /\ pc' = [pc EXCEPT ![c] = "escaped"]
            /\ UNCHANGED out
    /\ UNCHANGED <<envVars, overlap, toolVars, setupVars, fs, clients, handle, idx, client,
                   exc, stage, resp, searched,
                   logins, ranSearch, calls>>

(***************************************************************************)
(* login_setup.py: main and save_session_everywhere, in steps.             *)
(***************************************************************************)
\* existing_locations of main
existing_locations(d) == << Resolve(d, JsonName), Resolve(d, PickleName), HomePickle >>

\* locations of save_session_everywhere
locations(d) == << Resolve(d, JsonName), Resolve(d, PickleName), HomePickle >>

\* a client after multi_factor_authenticate(email, password, code) succeeded on it
MfaClient == [token |-> "tm", src |-> <<"none", "none">>, via |-> "mfa"]

\* one call made on client object k, with the number of client objects
\* constructed before it
Call(op, k, res) == [op |-> op, k |-> k, res |-> res, made |-> Len(clients)]

\* the outcomes of one iteration of save_session_everywhere
SaveOutcomes == {"ok", "mkdir_raises", "save_raises"}

\* return success_count > 0
OverallSuccess(n) == n > 0

\* a failure at one location ends the loop
StopAtFailure(i, o) == IF o = "ok" THEN i + 1 ELSE 4

\* the loop of save_session_everywhere goes on to the next location, whatever happened
AfterLocation(i, o) == i + 1

\* the MFA exchange is made on the client whose login raised
MfaOnSameClient(old, fresh) == old

\* "Create new instance for MFA": the client the MFA exchange is made on, given
\* the client whose login raised and a client just constructed
MfaTarget(old, fresh) == fresh

\* "mm = mm_mfa": the client main goes on with after the MFA exchange
AfterMfa(old, fresh) == fresh

\* a failed login is tried again
RetryLogin == "login"

\* "except Exception as e: print(...); return": where main is after a failed login
AfterLoginFailure == "done"

\* mm = MonarchMoney(); authenticated = False
MainStart ==
    /\ spc = "start"
    /\ clients' = Append(clients, BareClient)
    /\ mm' = Len(clients) + 1
    /\ authenticated' = FALSE
    /\ sidx' = 1
    /\ spc' = "check"
    /\ UNCHANGED <<envVars, toolVars, serverVars, fs, success_count, reports, saved, exit, slog>>

\* one iteration of "for location in existing_locations"
MainCheck ==
    /\ spc = "check"
    /\ LET locs == existing_locations(cwd) IN
       IF sidx > Len(locs)
       THEN /\ spc' = "login"
            /\ UNCHANGED <<clients, authenticated, sidx, slog>>
       ELSE LET p == locs[sidx] IN
            IF ~Exists(fs, p)
            THEN /\ sidx' = sidx + 1
                 /\ UNCHANGED <<clients, authenticated, spc, slog>>
            ELSE IF ~LoadSucceeds(fs, p)
            THEN /\ slog' = Append(slog, Call("load_session", mm, "raise"))
                 /\ sidx' = sidx + 1
                 /\ UNCHANGED <<clients, authenticated, spc>>
            ELSE /\ clients' = [clients EXCEPT ![mm] = LoadedClient(fs, p)]
                 /\ \E works \in BOOLEAN :
                      /\ slog' = slog \o << Call("load_session", mm, "ok"),
                                            Call("test_session", mm, IF works THEN "ok" ELSE "fail") >>
                      /\ IF works
                         THEN /\ authenticated' = TRUE
                              /\ spc' = "test"
                              /\ UNCHANGED sidx
                         ELSE /\ sidx' = sidx + 1
                              /\ UNCHANGED <<authenticated, spc>>
    /\ UNCHANGED <<envVars, toolVars, serverVars, fs, mm, success_count, reports, saved, exit>>

\* "await mm.login(email, password)" and its except clauses, up to the MFA prompt
MainLogin ==
    /\ spc = "login"
    /\ slog' = Append(slog, Call("login", mm, remoteAcct))
    /\ IF remoteAcct = "ok"
       THEN /\ clients' = [clients EXCEPT ![mm] = LoggedInClient(clients[mm])]
            /\ authenticated' = TRUE
            /\ spc' = "test"
            /\ UNCHANGED exit
       ELSE IF remoteAcct = "mfa"
       THEN /\ spc' = "mfa"
            /\ UNCHANGED <<clients, authenticated, exit>>
       ELSE /\ spc' = AfterLoginFailure
            /\ exit' = "returned"
            /\ UNCHANGED <<clients, authenticated>>
    /\ UNCHANGED <<envVars, toolVars, serverVars, fs, mm, sidx, success_count, reports, saved>>

\* the "except RequireMFAException" clause: a new client and the MFA exchange
MainMfa ==
    /\ spc = "mfa"
    /\ LET fresh == Len(clients) + 1
           target == MfaTarget(mm, fresh) IN
       \E accepted \in BOOLEAN :
          /\ slog' = Append(slog, Call("multi_factor_authenticate", target,
                                       IF accepted THEN "ok" ELSE "raise"))
          /\ IF accepted
             THEN /\ clients' = [Append(clients, BareClient) EXCEPT ![target] = MfaClient]
                  /\ mm' = AfterMfa(mm, fresh)
                  /\ authenticated' = TRUE
                  /\ spc' = "test"
                  /\ UNCHANGED exit
             ELSE /\ clients' = Append(clients, BareClient)
                  /\ spc' = "done"
                  /\ exit' = "uncaught"
                  /\ UNCHANGED <<mm, authenticated>>
    /\ UNCHANGED <<envVars, toolVars, serverVars, fs, sidx, success_count, reports, saved>>

\* "if not await test_session(mm)": the connection test before saving
MainTest ==
    /\ spc = "test"
    /\ \E works \in BOOLEAN :
          /\ works => Authenticated(mm)
          /\ slog' = Append(slog, Call("test_session", mm, IF works THEN "ok" ELSE "fail"))
          /\ IF works
             THEN /\ spc' = "save"
                  /\ sidx' = 1
                  /\ success_count' = 0
                  /\ reports' = << >>
                  /\ UNCHANGED exit
             ELSE /\ spc' = "done"
                  /\ exit' = "returned"
                  /\ UNCHANGED <<sidx, success_count, reports>>
    /\ UNCHANGED <<envVars, toolVars, serverVars, fs, clients, mm, authenticated, saved>>

\* one iteration of "for location in locations" of save_session_everywhere, or its return
SaveStep ==
    /\ spc = "save"
    /\ LET locs == locations(cwd) IN
       IF sidx > Len(locs)
       THEN /\ saved' = IF OverallSuccess(success_count) THEN "true" ELSE "false"
            /\ spc' = "verify"
            /\ UNCHANGED <<fs, sidx, success_count, reports, slog>>
       ELSE LET p == locs[sidx] IN
            \E o \in SaveOutcomes :
               /\ sidx' = AfterLocation(sidx, o)
               /\ UNCHANGED <<saved, spc>>
               /\ IF o = "ok"
                  THEN /\ fs' = [fs EXCEPT ![p] = clients[mm].token]
                       /\ success_count' = success_count + 1
                       /\ reports' = Append(reports, "saved")
                       /\ slog' = Append(slog, Call("save_session", mm, "ok"))
                  ELSE IF o = "mkdir_raises"
                  THEN /\ reports' = Append(reports, "error")
                       /\ UNCHANGED <<fs, success_count, slog>>
                  ELSE /\ reports' = Append(reports, "error")
                       /\ slog' = Append(slog, Call("save_session", mm, "raise"))
                       /\ \E left \in {fs[p], "corrupt"} : fs' = [fs EXCEPT ![p] = left]
                       /\ UNCHANGED success_count
    /\ UNCHANGED <<envVars, toolVars, serverVars, clients, mm, authenticated, exit>>

\* the final verification: a new client loads "monarch_session.json" and is tested
MainVerify ==
    /\ spc = "verify"
    /\ LET p == Resolve(cwd, JsonName)
           test_mm == Len(clients) + 1 IN
       IF ~LoadSucceeds(fs, p)
       THEN /\ clients' = Append(clients, BareClient)
            /\ slog' = Append(slog, Call("load_session", test_mm, "raise"))
            /\ exit' = "uncaught"
       ELSE /\ clients' = Append(clients, LoadedClient(fs, p))
            /\ \E works \in BOOLEAN :
                 slog' = slog \o << Call("load_session", test_mm, "ok"),
                                    Call("test_session", test_mm, IF works THEN "ok" ELSE "fail") >>
            /\ exit' = "returned"
    /\ spc' = "done"
    /\ UNCHANGED <<envVars, toolVars, serverVars, fs, mm, authenticated, sidx, success_count,
                   reports, saved>>

(***************************************************************************)
(* The specification: one of the three programs runs; the server's        *)
(* invocations of get_accounts are serial.                                 *)
(***************************************************************************)
Candidates == Range(session_locations(envSessionFile, cwd))

SetupFiles == Range(existing_locations(cwd))

InitServer ==
    /\ program \in {"server", "simple"}
    /\ envSessionFile \in {"unset", "custom"}
    /\ envEmail \in BOOLEAN
    /\ envPassword \in BOOLEAN
    /\ cwd \in Dirs
    /\ remoteAcct \in {"ok", "mfa", "bad"}
    /\ (~(envEmail /\ envPassword)) => remoteAcct = "ok"
    /\ fs \in [Paths -> InitialContents]
    /\ \A p \in Paths \ Candidates : fs[p] = "missing"
    /\ spc = "off"

InitSetup ==
    /\ program = "setup"
    /\ envSessionFile = "unset"
    /\ envEmail = FALSE
    /\ envPassword = FALSE
    /\ cwd \in Dirs
    /\ remoteAcct \in {"ok", "mfa", "bad"}
    /\ fs \in [Paths -> InitialContents]
    /\ \A p \in Paths \ SetupFiles : fs[p] = "missing"
    /\ spc = "start"

\* nothing constructed, nothing running
InitRest ==
    /\ clients = << >>
    /\ handle = 0
    /\ pc = [c \in Callers |-> "idle"]
    /\ idx = [c \in Callers |-> 0]
    /\ client = [c \in Callers |-> 0]
    /\ exc = [c \in Callers |-> "none"]
    /\ stage = [c \in Callers |-> "none"]
    /\ resp = [c \in Callers |-> NoResponse]
    /\ out = [c \in Callers |-> NoOutput]
    /\ searched = [c \in Callers |-> 0]
    /\ logins = [c \in Callers |-> 0]
    /\ ranSearch = [c \in Callers |-> FALSE]
    /\ calls = 0
    /\ tool = [c \in Callers |-> "none"]
    /\ args = [c \in Callers |-> DefaultArgs]
    /\ req = [c \in Callers |-> NoRequest]
    /\ overlap = FALSE
    /\ mm = 0
    /\ authenticated = FALSE
    /\ sidx = 0
    /\ success_count = 0
    /\ reports = << >>
    /\ saved = "none"
    /\ exit = "none"
    /\ slog = << >>

Init == (InitServer \/ InitSetup) /\ InitRest

NextServer ==
    \E c \in Callers :
        \/ StartCall(c)
        \/ GetClient(c)
        \/ LoopStep(c)
        \/ Creds(c)
        \/ Remote(c)
        \/ Reshape(c)
        \/ Except(c)

NextSetup ==
    \/ MainStart
    \/ MainCheck
    \/ MainLogin
    \/ MainMfa
    \/ MainTest
    \/ SaveStep
    \/ MainVerify

Next == NextServer \/ NextSetup

Spec == Init /\ [][Next]_vars

(***************************************************************************)
(* Notions the properties are stated in.                                   *)
(***************************************************************************)
ServerRuns == program \in {"server", "simple"}

Locs == session_locations(envSessionFile, cwd)

\* candidate i exists and deserializes
Loadable(i) == fs[Locs[i]] \in Tokens

NoLoadable == \A i \in DOMAIN Locs : ~Loadable(i)

\* the accessor of invocation c has returned or raised
AccessorFinished(c) == pc[c] \in {"remote", "reshape", "except", "done"}

AccessorReturned(c) == AccessorFinished(c) /\ client[c] # 0

AccessorRaised(c, e) ==
    AccessorFinished(c) /\ client[c] = 0 /\ stage[c] = "accessor" /\ exc[c] = e

\* C1: when the accessor runs the candidate loop, it returns the client loaded
\* from the first candidate, in list order, that exists and loads: a missing
\* candidate and one that fails to load are passed over, the loop stops at that
\* candidate, and no later candidate is looked at; the handle is that client.
C1_FirstLoadableWins ==
    \A c \in Callers :
       (ServerRuns /\ ranSearch[c] /\ pc[c] \notin {"get_client", "loop"}) =>
          \A i \in DOMAIN Locs :
             (Loadable(i) /\ \A j \in 1..(i - 1) : ~Loadable(j)) =>
                /\ client[c] # 0
                /\ client[c] = handle
                /\ clients[client[c]].via = "load"
                /\ clients[client[c]].src = Locs[i]
                /\ clients[client[c]].token = fs[Locs[i]]
                /\ idx[c] = i

\* C1 witness: first candidate missing, second corrupt, third valid, fourth
\* present as well, and the accessor returned the session of the third
C1_Witness ==
    \E c \in Callers :
       /\ ServerRuns /\ ranSearch[c] /\ AccessorReturned(c)
       /\ fs[Locs[1]] = "missing" /\ fs[Locs[2]] = "corrupt"
       /\ Loadable(3) /\ fs[Locs[4]] # "missing"
       /\ clients[client[c]].src = Locs[3]

\* C2 as stated: whenever no candidate loads, a call to the accessor fails with
\* AuthenticationRequired and with nothing else, and never returns normally.
C2_Original ==
    \A c \in Callers :
       (ServerRuns /\ AccessorFinished(c) /\ NoLoadable) =>
          AccessorRaised(c, "AuthenticationRequired")

\* C2 amended: when no candidate loads and MONARCH_EMAIL and MONARCH_PASSWORD are
\* not both set, the call to the accessor that runs the search (it found the
\* handle unset) fails with AuthenticationRequired, with no other error, and
\* does not return a client.
C2_NoSessionNoCredentials ==
    \A c \in Callers :
       (ServerRuns /\ AccessorFinished(c) /\ ranSearch[c] /\ NoLoadable
          /\ ~(envEmail /\ envPassword)) =>
              AccessorRaised(c, "AuthenticationRequired")

\* C2 witness: a corrupt candidate and no loadable one, only the email set, and
\* the accessor has raised AuthenticationRequired
C2_Witness ==
    \E c \in Callers :
       /\ ServerRuns /\ ranSearch[c] /\ NoLoadable
       /\ \E i \in DOMAIN Locs : fs[Locs[i]] = "corrupt"
       /\ envEmail /\ ~envPassword
       /\ AccessorRaised(c, "AuthenticationRequired")

\* C3 as stated: with no loadable session and no credentials, every handler
\* call, the first and each later one, returns the AuthenticationRequired
\* remediation error.
C3_Original ==
    \A c \in Callers :
       (ServerRuns /\ pc[c] = "done" /\ NoLoadable /\ ~envEmail /\ ~envPassword) =>
          out[c] = ErrorOutput("AuthenticationRequired")

\* C4: once the handle is set and no accessor is inside its search, no step
\* reassigns the handle, makes an os.path.exists, load_session or login call, or
\* hands a caller a client other than the handle.
HandleSettled == handle # 0 /\ \A c \in Callers : pc[c] \notin {"loop", "creds"}

C4_HandleNeverReassigned ==
    [][HandleSettled =>
         /\ handle' = handle
         /\ \A c \in Callers :
               /\ searched'[c] <= searched[c]
               /\ logins'[c] <= logins[c]
               /\ ~ranSearch'[c] \/ ranSearch[c]
               /\ (client'[c] # client[c]) => client'[c] \in {0, handle}]_vars

\* C4 witness: a second invocation got the handle's client, loaded by the first,
\* without searching
C4_Witness ==
    \E c \in Callers :
       /\ calls = 2 /\ pc[c] = "remote" /\ ~ranSearch[c] /\ searched[c] = 0
       /\ client[c] = handle /\ clients[handle].via = "load"

\* C5: no exception leaves a handler: whatever is raised while the client is
\* obtained, during the remote call or during reshaping, the invocation ends
\* with the text "Error getting accounts: " followed by the exception, and the
\* runtime can then start the next invocation.
C5_HandlerNeverRaises ==
    \A c \in Callers :
       /\ pc[c] # "escaped"
       /\ (pc[c] = "done" /\ exc[c] # "none") =>
             /\ stage[c] \in {"accessor", "remote", "reshape"}
             /\ out[c] = [kind |-> "error", prefix |-> "Error getting accounts: ",
                          exc |-> exc[c], body |-> << >>]
       /\ (pc[c] = "done" /\ exc[c] = "none") => out[c].kind = "json"
       /\ (pc[c] = "done" /\ calls < MaxCalls) => ENABLED StartCall(c)

\* C5 witness: the second invocation raised while reshaping, inside the worker
\* thread's result, and has returned its error text
C5_Witness ==
    \E c \in Callers :
       /\ calls = 2 /\ pc[c] = "done" /\ stage[c] = "reshape" /\ exc[c] = "TypeError"
       /\ out[c].kind = "error"

\* C6 as stated: no handler output ever carries the second-factor-required
\* signal of the login call.
C6_Original ==
    \A c \in Callers : out[c].exc # "RequireMFAException"

LoginCalls == {i \in DOMAIN slog : slog[i].op = "login"}

MfaCalls == {i \in DOMAIN slog : slog[i].op = "multi_factor_authenticate"}

\* C7: when a login of the setup utility raised the MFA requirement, the client
\* it was called on is the object of no later call (no MFA exchange, no test,
\* no save_session), and main is authenticated only after a successful
\* multi_factor_authenticate on an object constructed after that login call,
\* which is then the client main tests and saves.
C7_FreshClientForMfa ==
    \A i \in DOMAIN slog :
       (slog[i].op = "login" /\ slog[i].res = "mfa") =>
          /\ \A j \in DOMAIN slog : j > i => slog[j].k # slog[i].k
          /\ spc \in {"test", "save", "verify"} => authenticated
          /\ authenticated =>
                \E j \in DOMAIN slog :
                   /\ j > i
                   /\ slog[j].op = "multi_factor_authenticate" /\ slog[j].res = "ok"
                   /\ slog[j].k > slog[i].made
                   /\ mm = slog[j].k
                   /\ clients[mm].via = "mfa"

\* C7 witness: the client whose login raised the requirement held a session
\* loaded from a file, the MFA exchange succeeded on a second object, and that
\* object's session was saved
C7_Witness ==
    /\ program = "setup" /\ spc = "done" /\ exit = "returned"
    /\ clients[1].via = "load"
    /\ \E i, j, l \in DOMAIN slog :
          /\ i < j /\ j < l
          /\ slog[i].op = "login" /\ slog[i].res = "mfa" /\ slog[i].k = 1
          /\ slog[j].op = "multi_factor_authenticate" /\ slog[j].res = "ok" /\ slog[j].k = 2
          /\ slog[l].op = "save_session" /\ slog[l].res = "ok" /\ slog[l].k = 2

\* in the setup utility, no session file gave a working session: every
\* successful connection test came after the login call
SetupNoSession ==
    \A i \in DOMAIN slog :
       (slog[i].op = "test_session" /\ slog[i].res = "ok") => \E j \in LoginCalls : j < i

\* C8 as stated: with valid credentials, no loadable session and no MFA
\* requirement, the fallback has made exactly one login call, and the client is
\* authenticated, before the client is returned or used.
C8_Original ==
    /\ \A c \in Callers :
          (ServerRuns /\ ranSearch[c] /\ AccessorFinished(c) /\ NoLoadable
             /\ envEmail /\ envPassword /\ remoteAcct = "ok") =>
                /\ AccessorReturned(c)
                /\ logins[c] = 1
                /\ Authenticated(client[c])
    /\ (program = "setup" /\ remoteAcct = "ok" /\ SetupNoSession
          /\ spc \in {"test", "save", "verify", "done"}) =>
             /\ Cardinality(LoginCalls) = 1
             /\ authenticated

\* the call on which the most recent login or MFA exchange of main failed
LastCallFailed(op, res) ==
    /\ slog # << >>
    /\ slog[Len(slog)].op = op
    /\ slog[Len(slog)].res = res

\* C9: an invocation of the credential fallback makes at most one login call
\* and at most one MFA exchange, the exchange only directly after a login that
\* raised the MFA requirement; a failed login or a failed exchange is the last
\* call of the invocation, which ends there with the failure reported (the
\* handler's error text, main's return or main's exception); otherwise the
\* invocation ends with an authenticated client.
C9_FallbackTerminal ==
    /\ \A c \in Callers :
          /\ logins[c] <= 1
          /\ logins[c] = 1 => (ranSearch[c] /\ NoLoadable /\ program = "server")
          /\ (program = "server" /\ ranSearch[c] /\ AccessorFinished(c) /\ NoLoadable
                /\ envEmail /\ envPassword) =>
                   /\ logins[c] = 1
                   /\ \/ /\ remoteAcct = "ok"
                         /\ AccessorReturned(c)
                         /\ clients[client[c]].via = "login"
                         /\ Authenticated(client[c])
                      \/ /\ remoteAcct # "ok"
                         /\ AccessorRaised(c, IF remoteAcct = "mfa" THEN "RequireMFAException"
                                                ELSE "LoginFailedException")
                         /\ pc[c] = "done" => out[c].kind = "error" /\ out[c].exc = exc[c]
    /\ Cardinality(LoginCalls) <= 1
    /\ Cardinality(MfaCalls) <= 1
    /\ \A j \in MfaCalls : j > 1 /\ slog[j - 1].op = "login" /\ slog[j - 1].res = "mfa"
    /\ \A i \in LoginCalls :
          /\ slog[i].res = "bad" => (i = Len(slog) /\ spc = "done" /\ exit = "returned")
          /\ slog[i].res = "ok" => authenticated
          /\ slog[i].res = "mfa" => (i = Len(slog) /\ spc = "mfa") \/ (i + 1) \in MfaCalls
    /\ \A j \in MfaCalls :
          /\ slog[j].res = "raise" => (j = Len(slog) /\ spc = "done" /\ exit = "uncaught")
          /\ slog[j].res = "ok" => authenticated
    /\ (LoginCalls # {} /\ spc \notin {"mfa"}) =>
          \/ authenticated /\ Authenticated(mm)
          \/ spc = "done" /\ (LastCallFailed("login", "bad")
                                \/ LastCallFailed("multi_factor_authenticate", "raise"))

\* C9 witness: main's login raised the MFA requirement, the exchange failed,
\* and main ended there
C9_Witness ==
    /\ program = "setup" /\ spc = "done"
    /\ Cardinality(LoginCalls) = 1 /\ Cardinality(MfaCalls) = 1
    /\ LastCallFailed("multi_factor_authenticate", "raise")

\* C10: save_session_everywhere goes through all three locations whatever
\* fails, reports each one as saved or as an error, counts exactly the saved
\* ones, leaves the client's session in each saved location, and returns true
\* exactly when at least one location was saved.
C10_PersisterCounts ==
    LET locs == locations(cwd)
        savedAt == {i \in DOMAIN reports : reports[i] = "saved"}
    IN  /\ spc = "save" => Len(reports) = sidx - 1
        /\ spc \in {"save", "verify"} =>
              /\ success_count = Cardinality(savedAt)
              /\ \A i \in DOMAIN reports : reports[i] \in {"saved", "error"}
        /\ saved # "none" =>
              /\ Len(reports) = Len(locs)
              /\ success_count = Cardinality(savedAt)
              /\ saved = "true" <=> savedAt # {}
              /\ saved = "false" <=> savedAt = {}
              /\ spc = "verify" => \A i \in savedAt : fs[locs[i]] = clients[mm].token

\* C10 witness: the second location failed at mkdir, the other two were saved,
\* and the result is true
C10_Witness ==
    /\ saved = "true"
    /\ reports = <<"saved", "error", "saved">>
    /\ success_count = 2
    /\ \E i \in DOMAIN slog : slog[i].op = "save_session"
    /\ Cardinality({i \in DOMAIN slog : slog[i].op = "save_session"}) = 2

(***************************************************************************)
(* Setup, then the server: login_setup.py runs in some directory with no   *)
(* session file present and valid credentials typed in; after main has     *)
(* ended, the server is started, in any working directory, with or without *)
(* MONARCH_SESSION_FILE, and without credentials in its environment.       *)
(***************************************************************************)
InitDeploy ==
    /\ program = "setup"
    /\ envSessionFile = "unset"
    /\ envEmail = FALSE
    /\ envPassword = FALSE
    /\ cwd \in Dirs
    /\ remoteAcct \in {"ok", "mfa"}
    /\ fs = [p \in Paths |-> "missing"]
    /\ spc = "start"

\* "Next steps: 1. Restart Claude Desktop": the server process starts
StartServer ==
    /\ program = "setup"
    /\ spc = "done"
    /\ program' \in {"server", "simple"}
    /\ cwd' \in Dirs
    /\ envSessionFile' \in {"unset", "custom"}
    /\ UNCHANGED <<envEmail, envPassword, remoteAcct, fs, clients, serverVars, toolVars, setupVars>>

NextDeploy == NextSetup \/ StartServer \/ NextServer

DeployInit == InitDeploy /\ InitRest

DeploySpec == DeployInit /\ [][NextDeploy]_vars

\* C11 as stated: after a setup run whose save_session_everywhere returned
\* true, the first call of the server's accessor, whatever the server's working
\* directory and MONARCH_SESSION_FILE, does not fail with AuthenticationRequired.
C11_Original ==
    \A c \in Callers :
       (ServerRuns /\ saved = "true" /\ ranSearch[c] /\ AccessorFinished(c)) =>
          ~AccessorRaised(c, "AuthenticationRequired")

\* C12 as stated: main of login_setup.py ends by returning on every path; no
\* exception leaves it.
C12_Original == exit # "uncaught"

(***************************************************************************)
(* The data tools: a server with at most one session file, whose callers   *)
(* invoke get_accounts, get_transactions and get_budgets.                  *)
(***************************************************************************)
InitTools ==
    /\ program \in {"server", "simple"}
    /\ envSessionFile = "unset"
    /\ envEmail = FALSE
    /\ envPassword = FALSE
    /\ cwd = "repo"
    /\ remoteAcct = "ok"
    /\ fs \in [Paths -> {"missing", "t0"}]
    /\ \A p \in Paths \ {RepoJson} : fs[p] = "missing"
    /\ spc = "off"

ToolsInit == InitTools /\ InitRest

NextTools ==
    \E c \in Callers :
        \/ StartTool(c)
        \/ GetClient(c)
        \/ LoopStep(c)
        \/ Creds(c)
        \/ Remote(c)
        \/ Reshape(c)
        \/ Except(c)

ToolsSpec == ToolsInit /\ [][NextTools]_vars

\* the nested mappings of a response record of tool t that C13 lists
ListedNested(t) ==
    IF t = "get_accounts" THEN {"type", "institution"}
    ELSE IF t = "get_transactions" THEN {"category", "merchant"} ELSE {"category"}

\* invocation c has returned after the remote call answered with a list of records
Reshaped(c) == pc[c] = "done" /\ resp[c].kind = "list" /\ resp[c].items # << >>

\* C13 as stated: when a handler has reshaped a response in which every nested
\* mapping outside the listed ones is present, it has returned the JSON list, and
\* each listed nested mapping that was null or absent in a record is null in the
\* record's output.
C13_Original ==
    \A c \in Callers :
       (/\ Reshaped(c)
        /\ \A i \in DOMAIN resp[c].items :
              \A f \in DOMAIN resp[c].items[i] \ ListedNested(tool[c]) :
                 resp[c].items[i][f] = "map") =>
          /\ out[c].kind = "json"
          /\ \A i \in DOMAIN resp[c].items :
                \A f \in ListedNested(tool[c]) :
                   resp[c].items[i][f] \in {"null", "absent"} => out[c].body[i][f] = "null"

\* the request invocation c made is the get_transactions call
Forwarded(c) == req[c].method = "get_transactions"

\* C14 as stated: the request get_transactions forwards holds limit and offset
\* and, of the three filters, exactly those the caller passed something for.
C14_Original ==
    \A c \in Callers :
       Forwarded(c) =>
          DOMAIN req[c].kwargs =
             {"limit", "offset"} \cup {k \in FilterKeys : args[c][ArgOf(k)] # None}

\* C14: the request get_transactions forwards holds limit and offset with the
\* caller's values and, of the three filters, exactly those the caller passed a
\* non-empty value for, each with that value; a filter left out or passed as the
\* empty string is not in the request.
C14_FiltersForwarded ==
    \A c \in Callers :
       Forwarded(c) =>
          /\ DOMAIN req[c].kwargs =
                {"limit", "offset"}
                   \cup {k \in FilterKeys : args[c][ArgOf(k)] \notin {None, ""}}
          /\ req[c].kwargs["limit"] = args[c].limit
          /\ req[c].kwargs["offset"] = args[c].offset
          /\ \A k \in DOMAIN req[c].kwargs \cap FilterKeys :
                req[c].kwargs[k] = args[c][ArgOf(k)]

\* C14 witness: get_transactions(limit=50, start_date="2024-01-01") has forwarded
\* limit, offset and startDate only
C14_Witness ==
    \E c \in Callers :
       /\ Forwarded(c)
       /\ args[c] = [limit |-> 50, offset |-> DefaultOffset, start_date |-> "2024-01-01",
                     end_date |-> None, account_id |-> None]
       /\ DOMAIN req[c].kwargs = {"limit", "offset", "startDate"}
       /\ req[c].kwargs["offset"] = 0

(***************************************************************************)
(* server.py with no serialization of the invocations: run_async gives     *)
(* every invocation a thread and an event loop of its own, and the         *)
(* accessor takes no lock, so the steps of get_monarch_client of two       *)
(* invocations interleave statement by statement.                          *)
(***************************************************************************)
\* refresh_accounts is entered whatever the other invocations are doing
StartConcurrent(c) == Enter(c, "refresh_accounts", DefaultArgs)

\* if _monarch_client is None: (else: return _monarch_client)
TestHandle(c) ==
    /\ pc[c] = "get_client"
    /\ IF HandleIsNone(handle)
       THEN /\ pc' = [pc EXCEPT ![c] = "install"]
            /\ UNCHANGED client
       ELSE Return(c, handle)
    /\ UNCHANGED <<envVars, overlap, toolVars, setupVars, fs, clients, handle, idx, exc, stage,
                   resp, out, searched, logins, ranSearch, calls>>

\* _monarch_client = MonarchMoney()
Install(c) ==
    /\ pc[c] = "install"
    /\ clients' = Append(clients, BareClient)
    /\ handle' = Len(clients) + 1
    /\ idx' = [idx EXCEPT ![c] = 1]
    /\ ranSearch' = [ranSearch EXCEPT ![c] = TRUE]
    /\ pc' = [pc EXCEPT ![c] = "loop"]
    /\ UNCHANGED <<envVars, overlap, toolVars, setupVars, fs, client, exc, stage, resp, out,
                   searched, logins, calls>>

\* one iteration of the loop, up to "_monarch_client = test_client"
LoopAssign(c) ==
    /\ pc[c] = "loop"
    /\ LET locs == session_locations(envSessionFile, cwd) IN
       IF idx[c] > Len(locs)
       THEN /\ pc' = [pc EXCEPT ![c] = "creds"]
            /\ UNCHANGED <<clients, handle, idx, searched>>
       ELSE LET p == locs[idx[c]] IN
            IF ~Exists(fs, p)
            THEN /\ idx' = [idx EXCEPT ![c] = idx[c] + 1]
                 /\ searched' = [searched EXCEPT ![c] = searched[c] + 1]
                 /\ UNCHANGED <<clients, handle, pc>>
            ELSE /\ searched' = [searched EXCEPT ![c] = searched[c] + 2]
                 /\ IF LoadSucceeds(fs, p)
                    THEN /\ clients' = Append(clients, LoadedClient(fs, p))
                         /\ handle' = Len(clients) + 1
                         /\ pc' = [pc EXCEPT ![c] = "return"]
                         /\ UNCHANGED idx
                    ELSE /\ clients' = Append(clients, BareClient)
                         /\ idx' = [idx EXCEPT ![c] = AfterLoadFailure(idx[c])]
                         /\ UNCHANGED <<handle, pc>>
    /\ UNCHANGED <<envVars, overlap, toolVars, setupVars, fs, client, exc, stage, resp, out,
                   logins, ranSearch, calls>>

\* return _monarch_client: the handle is read again
ReturnHandle(c) ==
    /\ pc[c] = "return"
    /\ Return(c, handle)
    /\ UNCHANGED <<envVars, overlap, toolVars, setupVars, fs, clients, handle, idx, exc, stage,
                   resp, out, searched, logins, ranSearch, calls>>

InitRace ==
    /\ program = "server"
    /\ envSessionFile = "unset"
    /\ envEmail \in BOOLEAN
    /\ envPassword = envEmail
    /\ cwd = "repo"
    /\ remoteAcct = "ok"
    /\ fs \in [Paths -> InitialContents]
    /\ \A p \in Paths \ {RepoJson, HomePickle} : fs[p] = "missing"
    /\ spc = "off"

RaceInit == InitRace /\ InitRest

NextRace ==
    \E c \in Callers :
        \/ StartConcurrent(c)
        \/ TestHandle(c)
        \/ Install(c)
        \/ LoopAssign(c)
        \/ ReturnHandle(c)
        \/ Creds(c)
        \/ Remote(c)
        \/ Reshape(c)
        \/ Except(c)

RaceSpec == RaceInit /\ [][NextRace]_vars

\* the handle is populated and no invocation is in the search or the login of
\* the "if _monarch_client is None" block
Populated ==
    handle # 0 /\ \A c \in Callers : pc[c] \notin {"loop", "return", "creds"}

\* C15: as long as no invocation has started while another was running, a
\* populated handle is never reassigned and every invocation the accessor returns
\* to holds the client of the handle; nothing but that serialization gives this:
\* the accessor takes no lock (the witness is the race).
C15_SerialOnly ==
    [][~overlap' =>
          /\ Populated => handle' = handle
          /\ \A c \in Callers : AccessorReturned(c)' => client'[c] = handle']_vars

\* C15 witness: two first calls interleaved; both passed the test of the
\* handle, each built a placeholder and a client of its own, the later assignment
\* replaced the earlier one, and the two invocations hold different clients
C15_Witness ==
    \E c, d \in Callers :
       /\ overlap
       /\ ranSearch[c] /\ ranSearch[d]
       /\ AccessorReturned(c) /\ AccessorReturned(d)
       /\ client[c] # client[d]
       /\ clients[client[c]].via = "load" /\ clients[client[d]].via = "load"
       /\ handle = client[d]
       /\ Len(clients) = 4

\* C16 as stated: with the invocations serialized, every client the accessor
\* has returned is authenticated: a session file was loaded into it or a login
\* completed on it; it is never the bare placeholder.
C16_Original ==
    \A c \in Callers :
       (ServerRuns /\ ~overlap /\ AccessorReturned(c)) =>
          /\ Authenticated(client[c])
          /\ clients[client[c]] # BareClient
====
